---- MODULE Spec2Model ----
(***************************************************************************)
(* A model of the ingestion-and-retrieval core of the RAG application:     *)
(* the batched ingestion pipeline (src/src/ingestion.py), the lifecycle of *)
(* the persisted Chroma collection (load_vectorstore), the contact-scoped  *)
(* retriever (src/src/retrieval.py) and the process-wide vectorstore cache *)
(* of the Messenger webhook (src/webhook.py).                              *)
(***************************************************************************)
EXTENDS Integers, Sequences, FiniteSets, TLC

VARIABLES
    apiKey,      \* config.OPENAI_API_KEY is set (fixed for a process lifetime)
    dirExists,   \* CHROMA_PERSIST_DIR exists on disk
    collExists,  \* the collection CHROMA_COLLECTION_NAME exists in the store
    coll,        \* the chunks stored in the collection, in insertion order
    ing,         \* per UI session: the ingestion call in progress
    runs,        \* number of ingestion calls started so far
    prev,        \* the last ingestion call that returned normally
    cache,       \* webhook._vectorstore_cache (0 is None, n > 0 a handle)
    lock,        \* webhook._vectorstore_lock: 0 when free, else its holder
    thr,         \* per webhook worker thread: its _get_vectorstore call
    loads,       \* log of the load_vectorstore calls made by the webhook
    evidence,    \* the last retrieval made for an answer
    appSecret,   \* config.FB_APP_SECRET (0 when it is not set)
    http,        \* the last request to POST /webhook and its response
    queue,       \* the background tasks added and not yet started
    tasks,       \* the _process_message calls in progress
    links,       \* the rows of the table fb_contact_mapping
    linkCalls,    \* per psid: the contacts of the link calls made, in order
    log,         \* the rows of the table fb_messages, by id
    sent,        \* the calls of send_message made so far
    clock,       \* datetime.utcnow()
    dispatched   \* number of background tasks added so far

vars == <<apiKey, dirExists, collExists, coll, ing, runs, prev,
          cache, lock, thr, loads, evidence,
          appSecret, http, queue, tasks, links, linkCalls, log, sent, clock,
          dispatched>>

storeVars == <<dirExists, collExists, coll>>
ingestVars == <<ing, runs, prev>>
cacheVars == <<cache, lock, thr, loads>>
chatVars == <<appSecret, http, queue, tasks, links, linkCalls, log, sent,
              clock, dispatched>>
chatVarsButTasks == <<appSecret, http, queue, links, linkCalls, log, sent,
                      clock, dispatched>>

----------------------------------------------------------------------------
(* Bounds of the model *)

\* longest document list handed to an ingestion call
MaxDocs == 3
\* largest explicit batch_size argument (0 stands for None)
MaxBatch == 3
\* number of ingestion calls in one behaviour
MaxRuns == 2
\* number of webhook worker threads
NumThreads == 2
\* number of load_vectorstore calls in one behaviour
MaxLoads == 2
\* largest explicit k given to the contact-scoped retriever (0 is None)
MaxK == 2
\* longest document list of a run that overlaps another run
MaxOverlapDocs == 2
\* longest "messaging" list of a payload
MaxEvents == 2
\* number of background tasks added in one behaviour
MaxMessages == 2
\* latest time of a link call
MaxClock == 3
\* number of link calls for one psid
MaxLinks == 2

(* Program constants (src/src/config.py, src/app.py) *)
MESSAGE_LIMIT == 50
INGEST_BATCH_SIZE == 500
CHUNK_SIZE == 1000
CHUNK_OVERLAP == 200
TOP_K == 10

Min(a, b) == IF a < b THEN a ELSE b

----------------------------------------------------------------------------
(* CRM records and files, and the Documents made from them *)

\* The records the sources can deliver.  HubSpot ids are unique within one
\* object type only (the cache keys rows by (object_type, hs_object_id)), so
\* the deal below carries the same id as contact 1 while it is associated
\* with contact 2 alone.  The file is long enough to be split in two chunks.
Catalog == <<
    [otype |-> "contact", id |-> 1, contacts |-> <<>>,  len |-> 120],
    [otype |-> "contact", id |-> 2, contacts |-> <<>>,  len |-> 120],
    [otype |-> "deal",    id |-> 1, contacts |-> <<2>>, len |-> 150],
    [otype |-> "file",    id |-> 0, contacts |-> <<>>,  len |-> 1800] >>

Docs == DOMAIN Catalog

\* _get_association_id: the first associated object id, 0 for None
GetAssociationId(results) == IF results = <<>> THEN 0 ELSE Head(results)

\* The metadata a loader puts on the Document of record d; 0 is "key absent".
Metadata(d) ==
    LET r == Catalog[d] IN
    [object_type |-> r.otype,
     hs_object_id |-> IF r.otype = "file" THEN 0 ELSE r.id,
     associated_contact_id |->
         IF r.otype = "deal" THEN GetAssociationId(r.contacts) ELSE 0]

\* number of chunks of a text of n characters: windows of CHUNK_SIZE
\* characters, each overlapping the one before by CHUNK_OVERLAP
NumParts(n) ==
    IF n <= CHUNK_SIZE THEN 1
    ELSE 1 + ((n - CHUNK_SIZE) + (CHUNK_SIZE - CHUNK_OVERLAP) - 1)
                 \div (CHUNK_SIZE - CHUNK_OVERLAP)

\* text_splitter.split_documents on one document: every chunk inherits the
\* metadata of its document (it is looked up through the field doc)
SplitDocument(d) ==
    [k \in 1..NumParts(Catalog[d].len) |-> [doc |-> d, part |-> k]]

RECURSIVE SplitDocuments(_)
SplitDocuments(docs) ==
    IF docs = <<>> THEN <<>>
    ELSE SplitDocument(Head(docs)) \o SplitDocuments(Tail(docs))

\* the document lists given to ingestion: sub-lists of the catalog
RECURSIVE IncreasingFrom(_, _)
IncreasingFrom(lo, n) ==
    IF n = 0 THEN {<<>>}
    ELSE {<<>>} \cup
         UNION {{<<d>> \o t : t \in IncreasingFrom(d + 1, n - 1)} :
                    d \in {x \in Docs : x >= lo}}

DocLists == IncreasingFrom(1, MaxDocs)

----------------------------------------------------------------------------
(* Ingestion: src/src/ingestion.py *)

Sessions == {"ui1", "ui2"}

IdleCall ==
    [pc |-> "idle", op |-> "none", docs |-> <<>>, bsize |-> 0, cb |-> FALSE,
     emb |-> FALSE, i |-> 0, total |-> 0, processed |-> 0,
     batches |-> <<>>, calls |-> <<>>, err |-> "none", stale |-> FALSE]

NoRun == [op |-> "none", docs |-> <<>>, count |-> 0]

\* batch_size = batch_size or INGEST_BATCH_SIZE
EffectiveBatchSize(bs) == IF bs = 0 THEN INGEST_BATCH_SIZE ELSE bs

\* a batch count that rounds down
TotalBatches_Floor(total, bs) == total \div bs

\* total_batches = (total + batch_size - 1) // batch_size
TotalBatches(total, bs) == (total + bs - 1) \div bs

\* batch = docs[i : i + batch_size]
Batch(docs, i, bs) == SubSeq(docs, i + 1, Min(i + bs, Len(docs)))

\* an append that writes the chunks twice
AddDocuments_Twice(chunks, splits) == (chunks \o splits) \o splits

\* vectorstore.add_documents(splits): the chunks are appended, each under a
\* fresh id, so adding a chunk again stores it again
AddDocuments(chunks, splits) == chunks \o splits

\* a count that advances by the batch size, not by the batch
NextProcessed_BatchSize(processed, batch, bs) == processed + bs

\* processed += len(batch)
NextProcessed(processed, batch, bs) == processed + Len(batch)

\* no other session has an ingestion call in progress
Exclusive(s) == \A o \in Sessions \ {s} : ing[o].pc = "idle"

\* a call that does not reject the empty list
IngestBatchedCall_NoCheck(s, docs, bs, cb) ==
    /\ ing[s].pc = "idle"
    /\ runs < MaxRuns
    /\ runs' = runs + 1
    /\ LET call == [IdleCall EXCEPT !.op = "batched", !.docs = docs,
                                    !.cb = cb] IN
       IF ~apiKey
       THEN /\ ing' = [ing EXCEPT ![s] =
                          [call EXCEPT !.pc = "failed", !.err = "NoApiKey",
                                       !.bsize = EffectiveBatchSize(bs)]]
            /\ UNCHANGED storeVars
       ELSE /\ ing' = [ing EXCEPT ![s] =
                          [call EXCEPT !.pc = "delete", !.emb = TRUE,
                                       !.bsize = EffectiveBatchSize(bs)]]
            /\ dirExists' = TRUE
            /\ UNCHANGED <<collExists, coll>>
    /\ UNCHANGED <<apiKey, prev, cacheVars, evidence,
                   chatVars>>

\* a call that deletes the collection before it asks for the embeddings
IngestBatchedCall_DeleteFirst(s, docs, bs, cb) ==
    /\ ing[s].pc = "idle"
    /\ runs < MaxRuns
    /\ runs' = runs + 1
    /\ LET call == [IdleCall EXCEPT !.op = "batched", !.docs = docs,
                                    !.cb = cb] IN
       IF docs = <<>>
       THEN /\ ing' = [ing EXCEPT ![s] =
                          [call EXCEPT !.pc = "failed", !.err = "NoDocuments"]]
            /\ UNCHANGED storeVars
       ELSE IF ~apiKey
       THEN /\ ing' = [ing EXCEPT ![s] =
                          [call EXCEPT !.pc = "failed", !.err = "NoApiKey",
                                       !.bsize = EffectiveBatchSize(bs)]]
            /\ dirExists' = TRUE
            /\ collExists' = FALSE
            /\ coll' = <<>>
       ELSE /\ ing' = [ing EXCEPT ![s] =
                          [call EXCEPT !.pc = "delete", !.emb = TRUE,
                                       !.bsize = EffectiveBatchSize(bs)]]
            /\ dirExists' = TRUE
            /\ UNCHANGED <<collExists, coll>>
    /\ UNCHANGED <<apiKey, prev, cacheVars, evidence,
                   chatVars>>

\* ingest_documents_batched, up to the creation of the persist directory.
\* An empty list is rejected first; then get_embeddings raises without a key.
IngestBatchedCall(s, docs, bs, cb) ==
    /\ ing[s].pc = "idle"
    /\ runs < MaxRuns
    /\ runs' = runs + 1
    /\ LET call == [IdleCall EXCEPT !.op = "batched", !.docs = docs,
                                    !.cb = cb] IN
       IF docs = <<>>
       THEN /\ ing' = [ing EXCEPT ![s] =
                          [call EXCEPT !.pc = "failed", !.err = "NoDocuments"]]
            /\ UNCHANGED storeVars
       ELSE IF ~apiKey
       THEN /\ ing' = [ing EXCEPT ![s] =
                          [call EXCEPT !.pc = "failed", !.err = "NoApiKey",
                                       !.bsize = EffectiveBatchSize(bs)]]
            /\ UNCHANGED storeVars
       ELSE /\ ing' = [ing EXCEPT ![s] =
                          [call EXCEPT !.pc = "delete", !.emb = TRUE,
                                       !.bsize = EffectiveBatchSize(bs)]]
            /\ dirExists' = TRUE
            /\ UNCHANGED <<collExists, coll>>
    /\ UNCHANGED <<apiKey, prev, cacheVars, evidence,
                   chatVars>>

\* a run that does not delete the collection
IngestDelete_Skip(s) ==
    /\ ing[s].pc = "delete"
    /\ ing' = [ing EXCEPT ![s].pc = "open"]
    /\ UNCHANGED <<apiKey, storeVars, runs, prev, cacheVars, evidence,
                   chatVars>>

\* The calls as they are after session s has deleted the collection: s
\* goes on to open it, and the handle another run holds on the collection
\* that is gone (the store addresses a collection by its id) is stale.
AfterDelete(s) ==
    [o \in Sessions |->
        IF o = s THEN [ing[s] EXCEPT !.pc = "open"]
        ELSE IF ing[o].pc \in {"batch", "progress"}
        THEN [ing[o] EXCEPT !.stale = TRUE]
        ELSE ing[o]]

\* a run that deletes the collection only when it holds no chunk
IngestDelete_OnlyIfEmpty(s) ==
    /\ ing[s].pc = "delete"
    /\ IF coll = <<>>
       THEN /\ ing' = AfterDelete(s)
            /\ collExists' = FALSE
            /\ coll' = <<>>
       ELSE /\ ing' = [ing EXCEPT ![s].pc = "open"]
            /\ UNCHANGED <<collExists, coll>>
    /\ UNCHANGED <<apiKey, dirExists, runs, prev, cacheVars, evidence,
                   chatVars>>

\* client.delete_collection(name) inside try/except: the collection is
\* dropped; when there is none the call raises and the error is swallowed.
IngestDelete(s) ==
    /\ ing[s].pc = "delete"
    /\ ing' = AfterDelete(s)
    /\ collExists' = FALSE
    /\ coll' = <<>>
    /\ UNCHANGED <<apiKey, dirExists, runs, prev, cacheVars, evidence,
                   chatVars>>

\* vectorstore = Chroma(...): get-or-create of the collection; then the
\* loop variables total and processed are set.
IngestOpen(s) ==
    /\ ing[s].pc = "open"
    /\ ing' = [ing EXCEPT ![s].pc = "batch", ![s].total = Len(ing[s].docs),
                          ![s].processed = 0, ![s].i = 0]
    /\ collExists' = TRUE
    /\ coll' = IF collExists THEN coll ELSE <<>>
    /\ UNCHANGED <<apiKey, dirExists, runs, prev, cacheVars, evidence,
                   chatVars>>

\* a loop body whose failure comes after the chunks were written
IngestBatch_FailAfterAppend(s, fail) ==
    /\ ing[s].pc = "batch"
    /\ ing[s].i < ing[s].total
    /\ ing[s].stale => fail # "none"
    /\ LET batch == Batch(ing[s].docs, ing[s].i, ing[s].bsize) IN
       /\ coll' = AddDocuments(coll, SplitDocuments(batch))
       /\ IF fail = "none"
          THEN ing' = [ing EXCEPT ![s].pc = "progress",
                           ![s].batches = Append(ing[s].batches, batch)]
          ELSE ing' = [ing EXCEPT ![s].pc = "failed", ![s].err = fail]
    /\ UNCHANGED <<apiKey, dirExists, collExists, runs, prev, cacheVars,
                   evidence,
                   chatVars>>

\* One pass of the loop body up to add_documents: the batch is split, its
\* chunks are embedded and appended.  A failure of any of the three leaves
\* the collection as it is and propagates.  On a stale handle the append
\* fails, unless the splitter or the embedding failed before it.
IngestBatch(s, fail) ==
    /\ ing[s].pc = "batch"
    /\ ing[s].i < ing[s].total
    /\ ing[s].stale => fail # "none"
    /\ LET batch == Batch(ing[s].docs, ing[s].i, ing[s].bsize) IN
       IF fail = "none"
       THEN /\ coll' = AddDocuments(coll, SplitDocuments(batch))
            /\ ing' = [ing EXCEPT ![s].pc = "progress",
                           ![s].batches = Append(ing[s].batches, batch)]
       ELSE /\ coll' = coll
            /\ ing' = [ing EXCEPT ![s].pc = "failed", ![s].err = fail]
    /\ UNCHANGED <<apiKey, dirExists, collExists, runs, prev, cacheVars,
                   evidence,
                   chatVars>>

\* The rest of the loop body: processed += len(batch), the progress
\* callback when one was given, and the step of the range.
IngestProgress(s) ==
    /\ ing[s].pc = "progress"
    /\ LET batch == Batch(ing[s].docs, ing[s].i, ing[s].bsize)
           processed == NextProcessed(ing[s].processed, batch, ing[s].bsize)
           batch_num == (ing[s].i \div ing[s].bsize) + 1
           total_batches == TotalBatches(ing[s].total, ing[s].bsize)
           next == ing[s].i + ing[s].bsize
       IN  ing' = [ing EXCEPT
                ![s].processed = processed,
                ![s].calls = IF ing[s].cb
                             THEN Append(ing[s].calls,
                                         [processed |-> processed,
                                          total |-> ing[s].total,
                                          batch_num |-> batch_num,
                                          total_batches |-> total_batches,
                                          stored |-> Len(coll)])
                             ELSE ing[s].calls,
                ![s].i = next,
                ![s].pc = IF next < ing[s].total THEN "batch" ELSE "done"]
    /\ UNCHANGED <<apiKey, storeVars, runs, prev, cacheVars, evidence,
                   chatVars>>

\* index_documents(paths) and ingest_documents(docs), up to the creation of
\* the persist directory: get_embeddings, the file loader (index_documents
\* only, it raises on a missing or unsupported file) and the splitter.
StoreCall(s, op, docs, badPath) ==
    /\ ing[s].pc = "idle"
    /\ runs < MaxRuns
    /\ docs # <<>>
    /\ op = "ingest" => ~badPath
    /\ runs' = runs + 1
    /\ LET call == [IdleCall EXCEPT !.op = op, !.docs = docs,
                                    !.total = Len(docs)] IN
       IF ~apiKey
       THEN /\ ing' = [ing EXCEPT ![s] =
                          [call EXCEPT !.pc = "failed", !.err = "NoApiKey"]]
            /\ UNCHANGED storeVars
       ELSE IF badPath
       THEN /\ ing' = [ing EXCEPT ![s] =
                          [call EXCEPT !.pc = "failed", !.err = "load",
                                       !.emb = TRUE]]
            /\ UNCHANGED storeVars
       ELSE /\ ing' = [ing EXCEPT ![s] =
                          [call EXCEPT !.pc = "from_documents", !.emb = TRUE]]
            /\ dirExists' = TRUE
            /\ UNCHANGED <<collExists, coll>>
    /\ UNCHANGED <<apiKey, prev, cacheVars, evidence,
                   chatVars>>

\* Chroma.from_documents: get-or-create of the collection, then all chunks
\* are embedded and added to whatever the collection holds.
FromDocuments(s, fail) ==
    /\ ing[s].pc = "from_documents"
    /\ collExists' = TRUE
    /\ IF fail = "none"
       THEN /\ coll' = AddDocuments(IF collExists THEN coll ELSE <<>>,
                                     SplitDocuments(ing[s].docs))
            /\ ing' = [ing EXCEPT ![s].pc = "done",
                           ![s].batches = <<ing[s].docs>>,
                           ![s].processed = Len(ing[s].docs)]
       ELSE /\ coll' = IF collExists THEN coll ELSE <<>>
            /\ ing' = [ing EXCEPT ![s].pc = "failed", ![s].err = fail]
    /\ UNCHANGED <<apiKey, dirExists, runs, prev, cacheVars, evidence,
                   chatVars>>

\* The call returns its handle, or its error reaches the caller.
Return(s) ==
    /\ ing[s].pc \in {"done", "failed"}
    /\ ing' = [ing EXCEPT ![s] = IdleCall]
    /\ prev' = IF ing[s].pc = "done"
               THEN [op |-> ing[s].op, docs |-> ing[s].docs,
                     count |-> Len(coll)]
               ELSE NoRun
    /\ UNCHANGED <<apiKey, storeVars, runs, cacheVars, evidence,
                   chatVars>>

Failures == {"none", "split", "embed", "add"}

----------------------------------------------------------------------------
(* The lifecycle of the persisted index: load_vectorstore *)

\* What the try block of load_vectorstore meets: the open (Chroma(...)) or
\* the probe (_collection.count()) succeeds, raises
\* chromadb.errors.InternalError, or raises anything else.
Outcomes == {"ok", "open_internal", "open_other", "probe_internal",
             "probe_other"}

\* a load that catches chromadb.errors.InternalError only
LoadResult_InternalOnly(dir, key, outcome) ==
    IF ~dir THEN "none"
    ELSE IF ~key THEN "raise"
    ELSE IF outcome = "ok" THEN "handle"
    ELSE IF outcome \in {"open_other", "probe_other"} THEN "raise"
    ELSE "none"

\* a load that asks for the embeddings before it looks for the directory
LoadResult_KeyFirst(dir, key, outcome) ==
    IF ~key THEN "raise"
    ELSE IF ~dir THEN "none"
    ELSE IF outcome = "ok" THEN "handle"
    ELSE "none"

\* The result of load_vectorstore: None without a persist directory; the
\* ValueError of get_embeddings, raised outside the try block, when the
\* directory exists and no API key is set; a handle when open and probe
\* succeed; None on every exception of the try block.
LoadResult(dir, key, outcome) ==
    IF ~dir THEN "none"
    ELSE IF ~key THEN "raise"
    ELSE IF outcome = "ok" THEN "handle"
    ELSE "none"

\* a load that leaves the collection in place after an InternalError
CollExistsAfterLoad_NoCleanup(dir, key, outcome, exists) ==
    IF ~dir \/ ~key THEN exists
    ELSE CASE outcome = "ok"             -> TRUE
           [] outcome = "probe_other"    -> TRUE
           [] outcome = "open_other"     -> exists
           [] outcome = "open_internal"  -> exists
           [] outcome = "probe_internal" -> TRUE

\* Whether the collection exists after load_vectorstore: Chroma(...) gets
\* or creates it, _delete_collection_if_corrupt drops it after an
\* InternalError.
CollExistsAfterLoad(dir, key, outcome, exists) ==
    IF ~dir \/ ~key THEN exists
    ELSE CASE outcome = "ok"             -> TRUE
           [] outcome = "probe_other"    -> TRUE
           [] outcome = "open_other"     -> exists
           [] outcome = "open_internal"  -> FALSE
           [] outcome = "probe_internal" -> FALSE

----------------------------------------------------------------------------
(* The vectorstore cache of the webhook: src/webhook.py *)

Threads == 1..NumThreads

\* own is the load_vectorstore call the thread has made in its current call
NoLoad == [result |-> "none", dir |-> FALSE, key |-> FALSE, outcome |-> "none"]

\* err is the text of the error the answer attempt raised (empty: none),
\* inv tells that the thread has reset the cache
IdleThread ==
    [pc |-> "idle", res |-> 0, epoch |-> 0, own |-> NoLoad, err |-> <<>>,
     inv |-> FALSE]

\* threads between the first check and the release of the lock
InSlowPath == {t \in Threads : thr[t].pc \in {"acquire", "check2", "load"}}

\* _get_vectorstore is called: the unsynchronized first check of the cache
GetVsCall(t) ==
    /\ thr[t].pc = "idle"
    /\ Len(loads) + Cardinality(InSlowPath) < MaxLoads
    /\ thr' = [thr EXCEPT ![t] =
          IF cache # 0
          THEN [IdleThread EXCEPT !.pc = "returned", !.res = cache,
                                  !.epoch = Len(loads)]
          ELSE [IdleThread EXCEPT !.pc = "acquire", !.epoch = Len(loads)]]
    /\ UNCHANGED <<apiKey, storeVars, ingestVars, cache, lock, loads,
                   evidence,
                   chatVars>>

\* an acquire that does not wait for the lock to be free
GetVsAcquire_NoWait(t) ==
    /\ thr[t].pc = "acquire"
    /\ lock' = t
    /\ thr' = [thr EXCEPT ![t].pc = "check2"]
    /\ UNCHANGED <<apiKey, storeVars, ingestVars, cache, loads, evidence,
                   chatVars>>

\* with _vectorstore_lock: the thread waits until the lock is free
GetVsAcquire(t) ==
    /\ thr[t].pc = "acquire"
    /\ lock = 0
    /\ lock' = t
    /\ thr' = [thr EXCEPT ![t].pc = "check2"]
    /\ UNCHANGED <<apiKey, storeVars, ingestVars, cache, loads, evidence,
                   chatVars>>

\* a second check that is not made: the holder of the lock always loads
GetVsRecheck_Always(t) ==
    /\ thr[t].pc = "check2"
    /\ thr' = [thr EXCEPT ![t].pc = "load"]
    /\ UNCHANGED <<apiKey, storeVars, ingestVars, cache, lock, loads,
                   evidence,
                   chatVars>>

\* if _vectorstore_cache is None, under the lock
GetVsRecheck(t) ==
    /\ thr[t].pc = "check2"
    /\ thr' = [thr EXCEPT ![t].pc = IF cache = 0 THEN "load" ELSE "release"]
    /\ UNCHANGED <<apiKey, storeVars, ingestVars, cache, lock, loads,
                   evidence,
                   chatVars>>

\* a load whose caller caches a handle of its own when the load gave None
GetVsLoad_CacheAnyway(t, outcome) ==
    /\ thr[t].pc = "load"
    /\ LET result == LoadResult(dirExists, apiKey, outcome)
           handle == Len(loads) + 1
           own == [result |-> result, dir |-> dirExists, key |-> apiKey,
                   outcome |-> outcome]
       IN  /\ loads' = Append(loads,
                              [epoch |-> thr[t].epoch, result |-> result])
           /\ IF result = "raise"
              THEN /\ lock' = 0
                   /\ cache' = cache
                   /\ thr' = [thr EXCEPT ![t].pc = "raised", ![t].own = own]
              ELSE /\ lock' = lock
                   /\ cache' = handle
                   /\ thr' = [thr EXCEPT ![t].pc = "release", ![t].own = own]
    /\ collExists' = CollExistsAfterLoad(dirExists, apiKey, outcome, collExists)
    /\ coll' = IF collExists' /\ collExists THEN coll ELSE <<>>
    /\ UNCHANGED <<apiKey, dirExists, ingestVars, evidence,
                   chatVars>>

\* _vectorstore_cache = load_vectorstore(): a handle is a fresh object,
\* named by the number of the load that made it.  An exception leaves the
\* cache as it is, releases the lock and reaches the caller.
GetVsLoad(t, outcome) ==
    /\ thr[t].pc = "load"
    /\ LET result == LoadResult(dirExists, apiKey, outcome)
           handle == Len(loads) + 1
           own == [result |-> result, dir |-> dirExists, key |-> apiKey,
                   outcome |-> outcome]
       IN  /\ loads' = Append(loads,
                              [epoch |-> thr[t].epoch, result |-> result])
           /\ IF result = "raise"
              THEN /\ lock' = 0
                   /\ cache' = cache
                   /\ thr' = [thr EXCEPT ![t].pc = "raised", ![t].own = own]
              ELSE /\ lock' = lock
                   /\ cache' = IF result = "handle" THEN handle ELSE 0
                   /\ thr' = [thr EXCEPT ![t].pc = "release", ![t].own = own]
    /\ collExists' = CollExistsAfterLoad(dirExists, apiKey, outcome, collExists)
    /\ coll' = IF collExists' /\ collExists THEN coll ELSE <<>>
    /\ UNCHANGED <<apiKey, dirExists, ingestVars, evidence,
                   chatVars>>

\* a with block that keeps the lock until the caller is done
GetVsRelease_Keep(t) ==
    /\ thr[t].pc = "release"
    /\ lock' = lock
    /\ thr' = [thr EXCEPT ![t].pc = "ret"]
    /\ UNCHANGED <<apiKey, storeVars, ingestVars, cache, loads, evidence,
                   chatVars>>

\* the with block ends: the lock is released
GetVsRelease(t) ==
    /\ thr[t].pc = "release"
    /\ lock' = 0
    /\ thr' = [thr EXCEPT ![t].pc = "ret"]
    /\ UNCHANGED <<apiKey, storeVars, ingestVars, cache, loads, evidence,
                   chatVars>>

\* return _vectorstore_cache: the global is read again, outside the lock
GetVsReturn(t) ==
    /\ thr[t].pc = "ret"
    /\ thr' = [thr EXCEPT ![t].pc = "returned", ![t].res = cache]
    /\ UNCHANGED <<apiKey, storeVars, ingestVars, cache, lock, loads,
                   evidence,
                   chatVars>>

\* the caller goes on with what it received
GetVsDone(t) ==
    /\ thr[t].pc \in {"returned", "raised"}
    /\ thr' = [thr EXCEPT ![t] = IdleThread]
    /\ UNCHANGED <<apiKey, storeVars, ingestVars, cache, lock, loads,
                   evidence,
                   chatVars>>

----------------------------------------------------------------------------
(* Message processing of the webhook: _process_message *)

\* The texts of the errors an answer attempt can raise, as sequences of
\* characters: storage-engine errors in either case, and others.
ErrorTexts ==
    { <<"n", "o", " ", "H", "n", "s", "w">>,
      <<"c", "o", "m", "p", "a", "c", "t", "o", "r">>,
      <<"h", "n", "s", " ", "c", "o", "m", "p", "a", "c", "t">>,
      <<"t", "i", "m", "e", "o", "u", "t">> }

\* str.lower() on one character
LowerChar(c) ==
    CASE c = "H" -> "h" [] c = "N" -> "n" [] c = "S" -> "s" [] c = "W" -> "w"
      [] c = "C" -> "c" [] OTHER -> c

\* str.lower()
Lower(text) == [i \in DOMAIN text |-> LowerChar(text[i])]

\* sub in text
Contains(sub, text) ==
    \E i \in 0..(Len(text) - Len(sub)) :
        SubSeq(text, i + 1, i + Len(sub)) = sub

\* a test that matches the markers as they are written
HasMarker_CaseSensitive(text) ==
    \/ Contains(<<"h", "n", "s", "w">>, text)
    \/ Contains(<<"c", "o", "m", "p", "a", "c", "t", "o", "r">>, text)

\* "hnsw" in str(e).lower() or "compactor" in str(e).lower()
HasMarker(text) ==
    \/ Contains(<<"h", "n", "s", "w">>, Lower(text))
    \/ Contains(<<"c", "o", "m", "p", "a", "c", "t", "o", "r">>, Lower(text))

\* the sender is not linked to a contact: no vectorstore is asked for
ProcessUnlinked(t) ==
    /\ thr[t].pc = "idle"
    /\ thr' = [thr EXCEPT ![t] = [IdleThread EXCEPT !.pc = "reply"]]
    /\ UNCHANGED <<apiKey, storeVars, ingestVars, cache, lock, loads,
                   evidence,
                   chatVars>>

\* vectorstore is None: the "not ready yet" reply
NotReady(t) ==
    /\ thr[t].pc = "returned"
    /\ thr[t].res = 0
    /\ thr' = [thr EXCEPT ![t] = [IdleThread EXCEPT !.pc = "reply"]]
    /\ UNCHANGED <<apiKey, storeVars, ingestVars, cache, lock, loads,
                   evidence,
                   chatVars>>

\* answer_for_contact is entered with the handle the thread received
AnswerStart(t) ==
    /\ thr[t].pc = "returned"
    /\ thr[t].res # 0
    /\ thr' = [thr EXCEPT ![t] =
                  [IdleThread EXCEPT !.pc = "answer", !.res = thr[t].res]]
    /\ UNCHANGED <<apiKey, storeVars, ingestVars, cache, lock, loads,
                   evidence,
                   chatVars>>

\* answer_for_contact returns or raises; an error whose text holds a
\* marker leads to _invalidate_vectorstore_cache, any other to the reply
AnswerEnd(t, err) ==
    /\ thr[t].pc = "answer"
    /\ thr' = [thr EXCEPT ![t].err = err,
                          ![t].pc = IF err # <<>> /\ HasMarker(err)
                                    THEN "invalidate" ELSE "reply"]
    /\ UNCHANGED <<apiKey, storeVars, ingestVars, cache, lock, loads,
                   evidence,
                   chatVars>>

\* _invalidate_vectorstore_cache: with _vectorstore_lock
InvalidateAcquire(t) ==
    /\ thr[t].pc = "invalidate"
    /\ lock = 0
    /\ lock' = t
    /\ thr' = [thr EXCEPT ![t].pc = "reset"]
    /\ UNCHANGED <<apiKey, storeVars, ingestVars, cache, loads, evidence,
                   chatVars>>

\* _vectorstore_cache = None, and the with block ends
InvalidateReset(t) ==
    /\ thr[t].pc = "reset"
    /\ cache' = 0
    /\ lock' = 0
    /\ thr' = [thr EXCEPT ![t].pc = "reply", ![t].inv = TRUE]
    /\ UNCHANGED <<apiKey, storeVars, ingestVars, loads, evidence,
                   chatVars>>

\* send_message and save_message: the reply goes out (or the outer
\* handler takes over) and the task ends
Reply(t) ==
    /\ thr[t].pc = "reply"
    /\ thr' = [thr EXCEPT ![t] = IdleThread]
    /\ UNCHANGED <<apiKey, storeVars, ingestVars, cache, lock, loads,
                   evidence,
                   chatVars>>

\* an error of _get_vectorstore reaches the outer handler of
\* _process_message, which sends its apology and ends the task
OuterError(t) ==
    /\ thr[t].pc = "raised"
    /\ thr' = [thr EXCEPT ![t] = IdleThread]
    /\ UNCHANGED <<apiKey, storeVars, ingestVars, cache, lock, loads,
                   evidence,
                   chatVars>>

----------------------------------------------------------------------------
(* Contact-scoped retrieval: src/src/retrieval.py *)

\* the contact ids answers are asked for; no record carries the last one
ContactIds == {1, 2, 9}

\* the questions asked
Queries == {"deals", "email"}

\* The distance of a chunk to a question, as the embedding provider and
\* the index see it: some fixed order of the chunks for each question.
Distance(q, ch) ==
    IF q = "deals" THEN (5 - ch.doc) * 2 + ch.part
    ELSE ch.doc * 2 + ch.part

\* the filter of create_contact_scoped_retriever on a chunk's metadata:
\* {"$or": [{"hs_object_id": cid}, {"associated_contact_id": cid}]}
MatchesFilter(meta, cid) ==
    \/ meta.hs_object_id = cid
    \/ meta.associated_contact_id = cid

\* the k positions of cands nearest to q, nearest first
RECURSIVE Nearest(_, _, _, _)
Nearest(chunks, cands, q, k) ==
    IF k = 0 \/ cands = {} THEN <<>>
    ELSE LET best == CHOOSE i \in cands :
                 \A j \in cands :
                     \/ Distance(q, chunks[i]) < Distance(q, chunks[j])
                     \/ /\ Distance(q, chunks[i]) = Distance(q, chunks[j])
                        /\ i <= j
         IN  <<chunks[best]>> \o Nearest(chunks, cands \ {best}, q, k - 1)

\* a search that takes the k nearest of all chunks and filters them after
ScopedSearch_PostFilter(chunks, cid, q, k) ==
    SelectSeq(Nearest(chunks, DOMAIN chunks, q, k),
              LAMBDA ch : MatchesFilter(Metadata(ch.doc), cid))

\* similarity search with a filter: the filter selects the candidates
\* inside the index query, the k nearest of them are returned
ScopedSearch(chunks, cid, q, k) ==
    Nearest(chunks,
            {i \in DOMAIN chunks : MatchesFilter(Metadata(chunks[i].doc), cid)},
            q, k)

\* "k": k or TOP_K, where 0 stands for None
EffectiveK(k) == IF k = 0 THEN TOP_K ELSE k

\* Texts are sequences of characters.  What the language model may give
\* back: nothing, blanks only, or some text with or without blanks around.
LlmAnswers ==
    { <<>>, <<" ", " ">>, <<" ", "n", "o", " ">>, <<"B", "i", "g">> }

\* the fixed reply of answer_for_contact, kept as one piece
Fallback == <<"I couldn't find relevant information for your account.">>

\* str.strip(): leading and trailing blanks are removed
RECURSIVE Strip(_)
Strip(text) ==
    IF text = <<>> THEN <<>>
    ELSE IF Head(text) = " " THEN Strip(Tail(text))
    ELSE IF text[Len(text)] = " " THEN Strip(SubSeq(text, 1, Len(text) - 1))
    ELSE text

\* (result.get("answer") or "").strip() or "I couldn't find ..."
AnswerText(llm) == IF Strip(llm) = <<>> THEN Fallback ELSE Strip(llm)

\* The retrieval of one answer and the text made of it.  get_llm raises
\* without an API key before anything is retrieved; otherwise the chain
\* retrieves and hands what it found (be it nothing) to the language model;
\* answer is what the caller makes of the model's text.
Retrieval(via, cid, q, llm, answer) ==
    IF ~apiKey
    THEN [via |-> via, contact |-> cid, query |-> q, k |-> TOP_K,
          err |-> "NoApiKey", chunks |-> <<>>, llm |-> <<>>, answer |-> <<>>,
          context |-> <<>>]
    ELSE [via |-> via, contact |-> cid, query |-> q, k |-> TOP_K,
          err |-> "none", chunks |-> ScopedSearch(coll, cid, q, TOP_K),
          llm |-> llm, answer |-> answer, context |-> <<>>]

\* retrieval.answer_for_contact(vectorstore, contact_id, query), as the
\* webhook calls it for a linked sender
AnswerForContact(cid, q, llm) ==
    /\ collExists
    /\ evidence' = Retrieval("webhook", cid, q, llm, AnswerText(llm))
    /\ UNCHANGED <<apiKey, storeVars, ingestVars, cacheVars,
                   chatVars>>

\* response.get("answer", ...): the text of the model as it is
ChatAnswerText(llm) == llm

\* the chat tab answering as a linked contact: the contact-scoped chain
ChatScopedAnswer(cid, q, llm) ==
    /\ collExists
    /\ evidence' = Retrieval("chat", cid, q, llm, ChatAnswerText(llm))
    /\ UNCHANGED <<apiKey, storeVars, ingestVars, cacheVars,
                   chatVars>>

\* create_contact_scoped_retriever(vectorstore, contact_id, k) queried on
\* its own; the handle was made with embeddings, so an API key is set
ScopedRetrieve(cid, q, k) ==
    /\ collExists
    /\ apiKey
    /\ evidence' = [via |-> "retriever", contact |-> cid, query |-> q,
                    k |-> EffectiveK(k), err |-> "none",
                    chunks |-> ScopedSearch(coll, cid, q, EffectiveK(k)),
                    llm |-> <<>>, answer |-> <<>>, context |-> <<>>]
    /\ UNCHANGED <<apiKey, storeVars, ingestVars, cacheVars,
                   chatVars>>

NoEvidence ==
    [via |-> "none", contact |-> 0, query |-> "none", k |-> 0, err |-> "none",
     chunks |-> <<>>, llm |-> <<>>, answer |-> <<>>, context |-> <<>>]

----------------------------------------------------------------------------
(* The Messenger webhook: src/src/facebook.py and handle_webhook *)

Psids == {"p1", "p2"}

\* The messaging events a page payload can carry: the sender id is absent
\* ("" stands for no id) or a psid; the message has no text, a blank text
\* or a text with blanks around it.
Events ==
    [psid : {""} \cup Psids, hasText : {FALSE}, text : {<<>>}]
        \cup [psid : {""} \cup Psids, hasText : {TRUE},
               text : {<<" ">>, <<" ", "h", "i", " ">>}]

\* lists of at most n events
RECURSIVE EventLists(_)
EventLists(n) ==
    IF n = 0 THEN {<<>>}
    ELSE EventLists(n - 1)
             \cup {Append(l, e) : l \in EventLists(n - 1), e \in Events}

\* the "entry" lists of a payload: each entry carries a "messaging" list
EntryLists ==
    {<<>>} \cup {<<l>> : l \in EventLists(MaxEvents)}
           \cup {<<<<a>>, <<b>>>> : a, b \in Events}

\* one deliverable event, used where the shape of the body does not matter
PlainEntry(p) == <<<<[psid |-> p, hasText |-> TRUE,
                      text |-> <<" ", "h", "i", " ">>]>>>>

\* The bodies of the requests: unreadable, not JSON, or a JSON object with
\* its "object" and "entry" values.
Bodies ==
    [form : {"unreadable", "badjson", "json"}, object : {"page", "user"},
     entry : {PlainEntry("p1")}]
        \cup [form : {"json"}, object : {"page"}, entry : EntryLists]

\* hmac.new(secret, payload, sha256).hexdigest(): the digest stands for the
\* key and the payload it was made of
Hmac(key, payload) == [key |-> key, payload |-> payload]

\* the keys a sender may sign with: 1 is the app secret when one is set
SigningKeys == {1, 2}

\* The X-Hub-Signature-256 header that can come with body b: absent, empty,
\* or a prefix followed by a digest.
Signatures(b) ==
    [kind : {"missing", "empty"}, digest : {Hmac(0, b)}]
        \cup [kind : {"sha1", "sha256"},
               digest : {Hmac(k, b) : k \in SigningKeys}]

\* the requests: bodies of every form under every signature, and page
\* payloads of every shape without a signature
Requests ==
    UNION {[body : {b}, signature : Signatures(b)] :
               b \in {x \in Bodies : x.entry = PlainEntry("p1")}}
        \cup {[body |-> b, signature |-> [kind |-> "missing",
                                          digest |-> Hmac(0, b)]] :
                  b \in Bodies}

\* verify_signature(payload, signature)
VerifySignature(secret, payload, signature) ==
    IF secret = 0 \/ signature.kind \in {"missing", "empty"} THEN TRUE
    ELSE IF signature.kind # "sha256" THEN FALSE
    ELSE signature.digest = Hmac(secret, payload)

\* (message.get("text") or "").strip()
EventText(e) == Strip(IF e.hasText THEN e.text ELSE <<>>)

\* a filter that lets events with a blank text through
Dispatchable_AnyText(e) == e.psid # ""

\* if not psid: continue ... if not text: continue
Dispatchable(e) == e.psid # "" /\ EventText(e) # <<>>

\* the tasks added for the events of one "messaging" list, in order
RECURSIVE TasksOfEvents(_)
TasksOfEvents(events) ==
    IF events = <<>> THEN <<>>
    ELSE (IF Dispatchable(Head(events))
          THEN <<[psid |-> Head(events).psid,
                  text |-> EventText(Head(events))]>>
          ELSE <<>>) \o TasksOfEvents(Tail(events))

\* the tasks added for all entries of a payload, in order
RECURSIVE TasksOfEntries(_)
TasksOfEntries(entries) ==
    IF entries = <<>> THEN <<>>
    ELSE TasksOfEvents(Head(entries)) \o TasksOfEntries(Tail(entries))

\* The response of handle_webhook and the tasks it adds.
Handle(secret, req) ==
    IF req.body.form = "unreadable"
    THEN [status |-> 400, text |-> "Bad request", added |-> <<>>]
    ELSE IF ~VerifySignature(secret, req.body, req.signature)
    THEN [status |-> 401, text |-> "Invalid signature", added |-> <<>>]
    ELSE IF req.body.form = "badjson"
    THEN [status |-> 400, text |-> "Bad request", added |-> <<>>]
    ELSE IF req.body.object # "page"
    THEN [status |-> 200, text |-> "OK", added |-> <<>>]
    ELSE [status |-> 200, text |-> "OK",
          added |-> TasksOfEntries(req.body.entry)]

NoRequest ==
    [req |-> [body |-> [form |-> "none", object |-> "none", entry |-> <<>>],
              signature |-> [kind |-> "none",
                             digest |-> Hmac(0, [form |-> "none",
                                                 object |-> "none",
                                                 entry |-> <<>>])]],
     status |-> 0, text |-> "none", added |-> <<>>]

\* POST /webhook: the handler answers and leaves its tasks to the
\* background runner; no task is started by the handler itself.
HandleWebhook(req) ==
    /\ dispatched + Len(Handle(appSecret, req).added) <= MaxMessages
    /\ LET r == Handle(appSecret, req) IN
       /\ http' = [req |-> req, status |-> r.status, text |-> r.text,
                   added |-> r.added]
       /\ queue' = queue \o r.added
       /\ dispatched' = dispatched + Len(r.added)
    /\ UNCHANGED <<apiKey, storeVars, ingestVars, cacheVars, evidence,
                   appSecret, tasks, links, linkCalls, log, sent, clock>>

----------------------------------------------------------------------------
(* The link table and the message log: src/src/db.py *)

\* the name HubSpot holds for a contact
ContactName(cid) == IF cid = 1 THEN "Jane" ELSE "John"

\* an insert that does not replace the row of the psid
LinkRows_InsertOnly(rows, psid, cid, now) ==
    rows \cup {[psid |-> psid, hubspot_contact_id |-> cid,
                contact_name |-> ContactName(cid), linked_at |-> now]}

\* INSERT OR REPLACE INTO fb_contact_mapping: psid is the primary key, so
\* the row of the same psid, if any, gives way to the new one
LinkRows(rows, psid, cid, now) ==
    {r \in rows : r.psid # psid}
        \cup {[psid |-> psid, hubspot_contact_id |-> cid,
                contact_name |-> ContactName(cid), linked_at |-> now]}

\* link_psid_to_contact(psid, hubspot_contact_id, contact_name): the Link
\* button of the operator
LinkPsidToContact(psid, cid) ==
    /\ links' = LinkRows(links, psid, cid, clock)
    /\ linkCalls' = [linkCalls EXCEPT ![psid] = Append(@, cid)]
    /\ UNCHANGED <<apiKey, storeVars, ingestVars, cacheVars, evidence,
                   appSecret, http, queue, tasks, log, sent, clock,
                   dispatched>>

\* get_contact_for_psid(psid): the contact id of the row, 0 for None
GetContactForPsid(rows, psid) ==
    IF \E r \in rows : r.psid = psid
    THEN (CHOOSE r \in rows : r.psid = psid).hubspot_contact_id
    ELSE 0

\* get_unlinked_psids(): the psids with an inbound message and no link, for
\* which the Facebook tab shows the Link button
UnlinkedPsids(rows, msgs) ==
    {p \in Psids :
        /\ \E i \in DOMAIN msgs : msgs[i].psid = p /\ msgs[i].direction = "in"
        /\ ~\E r \in rows : r.psid = p}

\* time passes
Tick ==
    /\ clock < MaxClock
    /\ clock' = clock + 1
    /\ UNCHANGED <<apiKey, storeVars, ingestVars, cacheVars, evidence,
                   appSecret, http, queue, tasks, links, linkCalls, log, sent,
                   dispatched>>

\* a store that keeps only the latest message of a psid and direction
SaveMessage_Overwrite(rows, psid, direction, message, now) ==
    Append(SelectSeq(rows, LAMBDA r : ~(r.psid = psid
                                          /\ r.direction = direction)),
           [id |-> Len(rows) + 1, psid |-> psid, direction |-> direction,
            message |-> message, timestamp |-> now])

\* save_message: INSERT INTO fb_messages, the id counts up
SaveMessage(rows, psid, direction, message, now) ==
    Append(rows, [id |-> Len(rows) + 1, psid |-> psid,
                  direction |-> direction, message |-> message,
                  timestamp |-> now])

\* pair x comes before pair y
PairLess(x, y) == x[1] < y[1] \/ (x[1] = y[1] /\ x[2] < y[2])

\* the rows of a set as a list, in the order of their keys (pairs)
RECURSIVE Ordered(_, _)
Ordered(rows, key) ==
    IF rows = {} THEN <<>>
    ELSE LET first == CHOOSE a \in rows :
                          \A b \in rows \ {a} : PairLess(key[a], key[b])
         IN  <<first>> \o Ordered(rows \ {first}, key)

\* get_messages_for_psid(psid, limit): ORDER BY timestamp DESC LIMIT ?,
\* the limit newest rows of the psid, newest first (rows of one timestamp
\* in the order of their ids)
GetMessagesForPsid(rows, psid, limit) ==
    LET mine == {rows[i] : i \in {j \in DOMAIN rows : rows[j].psid = psid}}
        all == Ordered(mine, [r \in mine |-> <<0 - r.timestamp, r.id>>])
    IN  SubSeq(all, 1, Min(limit, Len(all)))

\* sorted(messages, key=timestamp): oldest first, and rows of one
\* timestamp stay in the order they came in
OlderFirstIn(msgs) ==
    LET set == {msgs[i] : i \in DOMAIN msgs}
        pos == [m \in set |-> CHOOSE i \in DOMAIN msgs : msgs[i] = m]
    IN  Ordered(set, [m \in set |-> <<m.timestamp, pos[m]>>])

\* _format_conversation_for_prompt: one line for each message, oldest
\* first, "[User]" for inbound and "[Assistant]" for outbound ones
FormatConversationForPrompt(msgs) ==
    LET sorted == OlderFirstIn(msgs) IN
    [i \in DOMAIN sorted |->
        [role |-> IF sorted[i].direction = "in" THEN "User" ELSE "Assistant",
         message |-> sorted[i].message]]

----------------------------------------------------------------------------
(* The background task of a message: _process_message *)

\* the fixed replies, each kept as one piece
AgentReply ==
    <<"Thanks for reaching out! An agent will connect your account shortly.">>
NotReadyReply ==
    <<"Your account is connected, but our knowledge base is not ready yet. Please try again later.">>
ErrorReply == <<"Sorry, I encountered an error. Please try again.">>
WrongReply == <<"Sorry, something went wrong. Please try again later.">>

\* The tasks are run one at a time by one worker; calls of _get_vectorstore
\* that overlap are the subject of the thread actions above.
TaskSlots == {1}

\* fails holds the steps of the task that failed, index tells that the
\* task has called _get_vectorstore, asked that it has called
\* answer_for_contact with the input context and question
IdleTask ==
    [pc |-> "idle", psid |-> "", text |-> <<>>, cid |-> 0, vs |-> 0,
     reply |-> <<>>, asked |-> FALSE, context |-> <<>>, question |-> <<>>,
     sends |-> <<>>, fails |-> {}, index |-> FALSE]

\* the background runner starts the next task that was added
StartTask(k) ==
    /\ tasks[k].pc \in {"idle", "done"}
    /\ queue # <<>>
    /\ tasks' = [tasks EXCEPT ![k] =
                    [IdleTask EXCEPT !.pc = "save_in",
                                     !.psid = Head(queue).psid,
                                     !.text = Head(queue).text]]
    /\ queue' = Tail(queue)
    /\ UNCHANGED <<apiKey, storeVars, ingestVars, cacheVars, evidence,
                   appSecret, http, links, linkCalls, log, sent, clock,
                   dispatched>>

\* save_message(psid, "in", text), stamped with the time of the call, after
\* which time has moved on; an error of the store goes to the outer handler
PmSaveIn(k, ok) ==
    /\ tasks[k].pc = "save_in"
    /\ IF ok
       THEN /\ log' = SaveMessage(log, tasks[k].psid, "in", tasks[k].text,
                                  clock)
            /\ clock' = clock + 1
            /\ tasks' = [tasks EXCEPT ![k].pc = "lookup"]
       ELSE /\ tasks' = [tasks EXCEPT ![k].pc = "except",
                                      ![k].fails = @ \cup {"store_in"}]
            /\ UNCHANGED <<log, clock>>
    /\ UNCHANGED <<apiKey, storeVars, ingestVars, cacheVars, evidence,
                   appSecret, http, queue, links, linkCalls, sent,
                   dispatched>>

\* a lookup that links an unknown sender to the first contact
PmLookup_AutoLink(k, ok) ==
    /\ tasks[k].pc = "lookup"
    /\ ok
    /\ links' = IF GetContactForPsid(links, tasks[k].psid) = 0
                THEN LinkRows(links, tasks[k].psid, 1, clock)
                ELSE links
    /\ tasks' = [tasks EXCEPT
                    ![k].cid = GetContactForPsid(links', tasks[k].psid),
                    ![k].pc = "getvs"]
    /\ UNCHANGED <<apiKey, storeVars, ingestVars, cacheVars, evidence,
                   appSecret, http, queue, linkCalls, log, sent, clock,
                   dispatched>>

\* a lookup after which every sender, linked or not, goes to the index
PmLookup_AlwaysIndex(k, ok) ==
    /\ tasks[k].pc = "lookup"
    /\ ok
    /\ tasks' = [tasks EXCEPT
                    ![k].cid = GetContactForPsid(links, tasks[k].psid),
                    ![k].pc = "getvs"]
    /\ UNCHANGED <<apiKey, storeVars, ingestVars, cacheVars, evidence,
                   appSecret, http, queue, links, linkCalls, log, sent, clock,
                   dispatched>>

\* mapping = get_contact_for_psid(psid): without a link the reply is the
\* fixed one and the task goes straight to sending it
PmLookup(k, ok) ==
    /\ tasks[k].pc = "lookup"
    /\ LET cid == GetContactForPsid(links, tasks[k].psid) IN
       tasks' = [tasks EXCEPT ![k] =
           IF ~ok
           THEN [tasks[k] EXCEPT !.pc = "except",
                                 !.fails = @ \cup {"lookup"}]
           ELSE IF cid = 0
           THEN [tasks[k] EXCEPT !.pc = "send", !.reply = AgentReply]
           ELSE [tasks[k] EXCEPT !.pc = "getvs", !.cid = cid]]
    /\ UNCHANGED <<apiKey, storeVars, ingestVars, cacheVars, evidence,
                   appSecret, http, queue, links, linkCalls, log, sent, clock,
                   dispatched>>

\* vectorstore = _get_vectorstore(), as one step of the task: the cached
\* handle, or under the lock the result of load_vectorstore, which is
\* cached when it is a handle; an error of the load goes to the outer
\* handler.
PmGetVectorstore(k, outcome) ==
    /\ tasks[k].pc = "getvs"
    /\ lock = 0
    /\ IF cache # 0
       THEN /\ tasks' = [tasks EXCEPT ![k].pc = "answer", ![k].vs = cache,
                                      ![k].index = TRUE]
            /\ UNCHANGED <<cache, loads, collExists, coll>>
       ELSE LET result == LoadResult(dirExists, apiKey, outcome)
                handle == Len(loads) + 1
            IN  /\ loads' = Append(loads, [epoch |-> Len(loads),
                                           result |-> result])
                /\ cache' = IF result = "handle" THEN handle ELSE 0
                /\ collExists' = CollExistsAfterLoad(dirExists, apiKey,
                                                     outcome, collExists)
                /\ coll' = IF collExists' /\ collExists THEN coll ELSE <<>>
                /\ tasks' = [tasks EXCEPT ![k] =
                       CASE result = "handle" ->
                                [tasks[k] EXCEPT !.pc = "answer",
                                                 !.vs = handle,
                                                 !.index = TRUE]
                         [] result = "none" ->
                                [tasks[k] EXCEPT !.pc = "send",
                                                 !.reply = NotReadyReply,
                                                 !.fails = @ \cup {"load"},
                                                 !.index = TRUE]
                         [] result = "raise" ->
                                [tasks[k] EXCEPT !.pc = "except",
                                                 !.fails = @ \cup {"load"},
                                                 !.index = TRUE]]
    /\ UNCHANGED <<apiKey, dirExists, ingestVars, lock, thr, evidence,
                   chatVarsButTasks>>

\* what answer_for_contact gives back: its answer, or an error with a text
AnswerResults ==
    [ok : {TRUE}, text : {AnswerText(llm) : llm \in {<<>>, <<"B", "i", "g">>}}]
        \cup [ok : {FALSE}, text : ErrorTexts]

\* an error reply that quotes the error
PmAnswer_LeakError(k, res) ==
    /\ tasks[k].pc = "answer"
    /\ lock = 0
    /\ tasks' = [tasks EXCEPT ![k] =
          [tasks[k] EXCEPT
               !.pc = "send", !.asked = TRUE, !.context = <<>>,
               !.question = tasks[k].text,
               !.reply = IF res.ok THEN res.text ELSE ErrorReply \o res.text,
               !.fails = IF res.ok THEN @ ELSE @ \cup {"answer"}]]
    /\ cache' = IF ~res.ok /\ HasMarker(res.text) THEN 0 ELSE cache
    /\ UNCHANGED <<apiKey, storeVars, ingestVars, lock, thr, loads, evidence,
                   chatVarsButTasks>>

\* reply = answer_for_contact(vectorstore, mapping["hubspot_contact_id"],
\* text): the input is the text of the message alone.  An error gives the
\* fixed error reply, and resets the cache when its text holds a marker.
PmAnswer(k, res) ==
    /\ tasks[k].pc = "answer"
    /\ lock = 0
    /\ tasks' = [tasks EXCEPT ![k] =
          [tasks[k] EXCEPT
               !.pc = "send", !.asked = TRUE, !.context = <<>>,
               !.question = tasks[k].text,
               !.reply = IF res.ok THEN res.text ELSE ErrorReply,
               !.fails = IF res.ok THEN @ ELSE @ \cup {"answer"}]]
    /\ cache' = IF ~res.ok /\ HasMarker(res.text) THEN 0 ELSE cache
    /\ UNCHANGED <<apiKey, storeVars, ingestVars, lock, thr, loads, evidence,
                   chatVarsButTasks>>

\* send_message(psid, reply): it returns whether the Send API took the
\* message and never raises; the task does not look at what it returns
PmSend(k, delivered) ==
    /\ tasks[k].pc = "send"
    /\ sent' = Append(sent, [psid |-> tasks[k].psid, text |-> tasks[k].reply])
    /\ delivered \in BOOLEAN
    /\ tasks' = [tasks EXCEPT ![k].pc = "save_out",
                              ![k].sends = Append(@, tasks[k].reply)]
    /\ UNCHANGED <<apiKey, storeVars, ingestVars, cacheVars, evidence,
                   appSecret, http, queue, links, linkCalls, log, clock,
                   dispatched>>

\* save_message(psid, "out", reply); an error of the store goes to the
\* outer handler
PmSaveOut(k, ok) ==
    /\ tasks[k].pc = "save_out"
    /\ IF ok
       THEN /\ log' = SaveMessage(log, tasks[k].psid, "out", tasks[k].reply,
                                  clock)
            /\ clock' = clock + 1
            /\ tasks' = [tasks EXCEPT ![k].pc = "done"]
       ELSE /\ tasks' = [tasks EXCEPT ![k].pc = "except",
                                      ![k].fails = @ \cup {"store_out"}]
            /\ UNCHANGED <<log, clock>>
    /\ UNCHANGED <<apiKey, storeVars, ingestVars, cacheVars, evidence,
                   appSecret, http, queue, links, linkCalls, sent,
                   dispatched>>

\* except Exception: the apology is sent, whatever becomes of it, and the
\* task ends without an error
PmExcept(k, delivered) ==
    /\ tasks[k].pc = "except"
    /\ sent' = Append(sent, [psid |-> tasks[k].psid, text |-> WrongReply])
    /\ delivered \in BOOLEAN
    /\ tasks' = [tasks EXCEPT ![k].pc = "done",
                              ![k].sends = Append(@, WrongReply)]
    /\ UNCHANGED <<apiKey, storeVars, ingestVars, cacheVars, evidence,
                   appSecret, http, queue, links, linkCalls, log, clock,
                   dispatched>>

\* The chat tab answering as the contact a psid is linked to: the stored
\* conversation of the psid goes before the question.
ChatAsContact(psid, q, llm) ==
    /\ collExists
    /\ GetContactForPsid(links, psid) # 0
    /\ evidence' =
           [Retrieval("chat", GetContactForPsid(links, psid), q, llm,
                      ChatAnswerText(llm))
               EXCEPT !.context = FormatConversationForPrompt(
                          GetMessagesForPsid(log, psid, MESSAGE_LIMIT))]
    /\ UNCHANGED <<apiKey, storeVars, ingestVars, cacheVars, chatVars>>

----------------------------------------------------------------------------
(* Specifications *)

InitStore ==
    /\ dirExists = FALSE
    /\ collExists = FALSE
    /\ coll = <<>>

\* no request was made, no task added, both tables are empty
InitChat ==
    /\ http = NoRequest
    /\ queue = <<>>
    /\ tasks = [k \in TaskSlots |-> IdleTask]
    /\ links = {}
    /\ linkCalls = [p \in Psids |-> <<>>]
    /\ log = <<>>
    /\ sent = <<>>
    /\ clock = 1
    /\ dispatched = 0

InitQuiet ==
    /\ ing = [s \in Sessions |-> IdleCall]
    /\ runs = 0
    /\ prev = NoRun
    /\ cache = 0
    /\ lock = 0
    /\ thr = [t \in Threads |-> IdleThread]
    /\ loads = <<>>
    /\ evidence = NoEvidence
    /\ InitChat

InitIdle ==
    /\ InitQuiet
    /\ appSecret = 0

\* a fresh installation: nothing on disk, nothing in progress
Init ==
    /\ apiKey \in BOOLEAN
    /\ InitStore
    /\ InitIdle

\* an installation with an index an ingestion has filled, with the API
\* key still in the configuration or taken out of it since
InitIndexed ==
    /\ apiKey \in BOOLEAN
    /\ dirExists = TRUE
    /\ collExists = TRUE
    /\ coll = SplitDocuments(<<1, 2, 3>>)
    /\ InitIdle

\* the UI sessions ingest one after another
NextIngest ==
    \E s \in Sessions :
        \/ /\ Exclusive(s)
           /\ \E docs \in DocLists, bs \in 0..MaxBatch, cb \in BOOLEAN :
                  IngestBatchedCall(s, docs, bs, cb)
        \/ /\ Exclusive(s)
           /\ \E op \in {"index", "ingest"}, docs \in DocLists,
                 badPath \in BOOLEAN :
                  StoreCall(s, op, docs, badPath)
        \/ IngestDelete(s)
        \/ IngestOpen(s)
        \/ \E fail \in Failures : IngestBatch(s, fail)
        \/ IngestProgress(s)
        \/ \E fail \in {"none", "embed", "add"} : FromDocuments(s, fail)
        \/ Return(s)

SpecIngest == Init /\ [][NextIngest]_vars

\* one ingestion call over the index that is there
NextReingest ==
    \E s \in Sessions :
        \/ /\ runs = 0
           /\ \E docs \in DocLists, bs \in 0..MaxBatch, cb \in BOOLEAN :
                  IngestBatchedCall(s, docs, bs, cb)
        \/ /\ runs = 0
           /\ \E op \in {"index", "ingest"}, docs \in DocLists,
                 badPath \in BOOLEAN :
                  StoreCall(s, op, docs, badPath)
        \/ IngestDelete(s)
        \/ IngestOpen(s)
        \/ \E fail \in Failures : IngestBatch(s, fail)
        \/ IngestProgress(s)
        \/ \E fail \in {"none", "embed", "add"} : FromDocuments(s, fail)
        \/ Return(s)

SpecReingest == InitIndexed /\ [][NextReingest]_vars

\* The webhook process starts on a disk in any state the UI has left: no
\* persist directory, a directory without the collection, or a collection
\* filled by an ingestion.
InitCache ==
    /\ apiKey \in BOOLEAN
    /\ dirExists \in BOOLEAN
    /\ collExists \in {FALSE, dirExists}
    /\ coll = IF collExists THEN SplitDocuments(<<1, 2, 3>>) ELSE <<>>
    /\ InitIdle

NextCache ==
    \E t \in Threads :
        \/ GetVsCall(t)
        \/ GetVsAcquire(t)
        \/ GetVsRecheck(t)
        \/ \E outcome \in Outcomes : GetVsLoad(t, outcome)
        \/ GetVsRelease(t)
        \/ GetVsReturn(t)
        \/ GetVsDone(t)

SpecCache == InitCache /\ [][NextCache]_vars

\* the background tasks of the webhook, each processing one message
NextWebhook ==
    \E t \in Threads :
        \/ ProcessUnlinked(t)
        \/ GetVsCall(t)
        \/ GetVsAcquire(t)
        \/ GetVsRecheck(t)
        \/ \E outcome \in Outcomes : GetVsLoad(t, outcome)
        \/ GetVsRelease(t)
        \/ GetVsReturn(t)
        \/ NotReady(t)
        \/ AnswerStart(t)
        \/ \E err \in ErrorTexts \cup {<<>>} : AnswerEnd(t, err)
        \/ InvalidateAcquire(t)
        \/ InvalidateReset(t)
        \/ Reply(t)
        \/ OuterError(t)

SpecWebhook == InitCache /\ [][NextWebhook]_vars

\* no webhook thread is inside _get_vectorstore
Quiet == \A t \in Threads : thr[t].pc \in {"idle", "returned", "raised"}

\* Recovery: one call of _get_vectorstore loads on a disk in any state;
\* once the load has returned None, a session runs the batched ingestion.
NextRecover ==
    \/ \E t \in Threads :
           \/ /\ \A u \in Threads : thr[u].pc = "idle"
              /\ runs = 0
              /\ GetVsCall(t)
           \/ GetVsAcquire(t)
           \/ GetVsRecheck(t)
           \/ \E outcome \in Outcomes : GetVsLoad(t, outcome)
           \/ GetVsRelease(t)
           \/ GetVsReturn(t)
    \/ \E s \in Sessions :
           \/ /\ Exclusive(s)
              /\ Quiet
              /\ runs = 0
              /\ loads # <<>>
              /\ loads[Len(loads)].result = "none"
              /\ \E docs \in DocLists \ {<<>>}, bs \in 0..MaxBatch,
                    cb \in BOOLEAN :
                     IngestBatchedCall(s, docs, bs, cb)
           \/ IngestDelete(s)
           \/ IngestOpen(s)
           \/ \E fail \in Failures : IngestBatch(s, fail)
           \/ IngestProgress(s)
           \/ Return(s)

SpecRecover == InitCache /\ [][NextRecover]_vars

\* Two sessions run the batched ingestion with nothing to keep them apart.
NextConcurrent ==
    \E s \in Sessions :
        \/ \E docs \in {l \in DocLists : Len(l) \in 1..MaxOverlapDocs},
              bs \in 0..1 :
               IngestBatchedCall(s, docs, bs, FALSE)
        \/ IngestDelete(s)
        \/ IngestOpen(s)
        \/ \E fail \in {"none", "add"} : IngestBatch(s, fail)
        \/ IngestProgress(s)
        \/ Return(s)

SpecConcurrent == Init /\ [][NextConcurrent]_vars

\* Answers are asked over a collection a batched ingestion of any sub-list
\* of the catalog has filled.
InitRetrieval ==
    /\ apiKey \in BOOLEAN
    /\ dirExists = TRUE
    /\ collExists = TRUE
    /\ coll \in {SplitDocuments(l) : l \in IncreasingFrom(1, Len(Catalog))}
    /\ InitIdle

NextRetrieval ==
    \E cid \in ContactIds, q \in Queries :
        \/ \E llm \in LlmAnswers : AnswerForContact(cid, q, llm)
        \/ \E llm \in LlmAnswers : ChatScopedAnswer(cid, q, llm)
        \/ \E k \in 0..MaxK : ScopedRetrieve(cid, q, k)

SpecRetrieval == InitRetrieval /\ [][NextRetrieval]_vars

\* Requests of any shape reach POST /webhook, with or without an app
\* secret configured; the tasks added are left in the queue.
InitHandler ==
    /\ apiKey = TRUE
    /\ InitStore
    /\ InitQuiet
    /\ appSecret \in {0, 1}

\* one request after another, as long as no task waits
NextHandler ==
    \E req \in Requests :
        /\ queue = <<>>
        /\ HandleWebhook(req)

SpecHandler == InitHandler /\ [][NextHandler]_vars

\* the requests that carry one event with a sender and a text, unsigned
PlainRequests ==
    {[body |-> [form |-> "json", object |-> "page", entry |-> PlainEntry(p)],
      signature |-> [kind |-> "missing",
                     digest |-> Hmac(0, [form |-> "json", object |-> "page",
                                         entry |-> PlainEntry(p)])]] :
         p \in Psids}

\* Messages arrive and are processed, any step of a task may fail, and the
\* operator links the senders that wait for a link.
NextMessaging ==
    \/ \E req \in PlainRequests : HandleWebhook(req)
    \/ \E p \in UnlinkedPsids(links, log), cid \in {1, 2} :
           LinkPsidToContact(p, cid)
    \/ \E k \in TaskSlots :
           \/ StartTask(k)
           \/ \E ok \in BOOLEAN : PmSaveIn(k, ok)
           \/ \E ok \in BOOLEAN : PmLookup(k, ok)
           \/ \E outcome \in Outcomes : PmGetVectorstore(k, outcome)
           \/ \E res \in AnswerResults : PmAnswer(k, res)
           \/ \E delivered \in BOOLEAN : PmSend(k, delivered)
           \/ \E ok \in BOOLEAN : PmSaveOut(k, ok)
           \/ \E delivered \in BOOLEAN : PmExcept(k, delivered)

SpecMessaging == InitIndexed /\ [][NextMessaging]_vars

\* Messages arrive and are processed without a failure, the operator links
\* senders and asks questions in the chat tab as a linked contact.
NextChat ==
    \/ \E req \in PlainRequests : HandleWebhook(req)
    \/ \E p \in UnlinkedPsids(links, log), cid \in {1, 2} :
           LinkPsidToContact(p, cid)
    \/ \E p \in Psids, llm \in {<<"B", "i", "g">>} :
           ChatAsContact(p, "deals", llm)
    \/ \E k \in TaskSlots :
           \/ StartTask(k)
           \/ PmSaveIn(k, TRUE)
           \/ PmLookup(k, TRUE)
           \/ PmGetVectorstore(k, "ok")
           \/ \E res \in {r \in AnswerResults : r.ok} : PmAnswer(k, res)
           \/ PmSend(k, TRUE)
           \/ PmSaveOut(k, TRUE)

InitChatTab ==
    /\ InitIndexed
    /\ apiKey = TRUE

SpecChat == InitChatTab /\ [][NextChat]_vars

\* link_psid_to_contact called for any psid and contact, again and again
NextLinks ==
    \/ \E p \in Psids, cid \in {1, 2} :
           /\ Len(linkCalls[p]) < MaxLinks
           /\ LinkPsidToContact(p, cid)
    \/ Tick

SpecLinks == InitIndexed /\ [][NextLinks]_vars

\* everything together, from a fresh installation
Next ==
    \/ NextIngest
    \/ NextReingest
    \/ NextCache
    \/ NextWebhook
    \/ NextRecover
    \/ NextConcurrent
    \/ NextHandler
    \/ NextMessaging
    \/ NextChat
    \/ NextLinks
    \/ NextRetrieval

Spec == Init /\ [][Next]_vars

----------------------------------------------------------------------------
(* Properties of ingestion, checked under SpecIngest *)

RECURSIVE Flatten(_)
Flatten(seqs) ==
    IF seqs = <<>> THEN <<>> ELSE Head(seqs) \o Flatten(Tail(seqs))

\* the least k with k * b >= n
CeilDiv(n, b) == CHOOSE k \in 0..n : k * b >= n /\ (k = 0 \/ (k - 1) * b < n)

Last(seq) == seq[Len(seq)]

BatchedIn(s, pcs) == ing[s].op = "batched" /\ ing[s].pc \in pcs

C5_EntryPointsReplace ==
    \A s \in Sessions :
        (ing[s].op \in {"index", "ingest"} /\ ing[s].pc = "done") =>
            coll = SplitDocuments(ing[s].docs)

\* C6: a completed batched run over N documents with batch size B has
\* written ceil(N/B) non-empty batches whose concatenation is the input
\* list, and the last progress callback reported N of N, as batch
\* ceil(N/B) of ceil(N/B).
C6_BatchCompleteness ==
    \A s \in Sessions :
        BatchedIn(s, {"done"}) =>
            LET n == Len(ing[s].docs)
                k == CeilDiv(n, ing[s].bsize)
            IN  /\ n >= 1 /\ ing[s].bsize >= 1
                /\ Len(ing[s].batches) = k
                /\ \A b \in 1..k : ing[s].batches[b] # <<>>
                /\ Flatten(ing[s].batches) = ing[s].docs
                /\ ing[s].processed = n
                /\ ing[s].cb =>
                       /\ ing[s].calls # <<>>
                       /\ Last(ing[s].calls).processed = n
                       /\ Last(ing[s].calls).batch_num = k
                       /\ Last(ing[s].calls).total_batches = k

\* three documents were written in two batches of at most two, with a
\* progress callback
C6_Witness ==
    \E s \in Sessions :
        /\ BatchedIn(s, {"done"})
        /\ Len(ing[s].docs) = 3
        /\ ing[s].bsize = 2
        /\ ing[s].cb
        /\ Len(ing[s].batches) = 2

\* C7: the progress callback has run once for every batch appended (the
\* batch being appended right now has not been reported yet); call k came
\* when the chunks of batches 1..k were stored, with total_count the
\* number of input documents and processed_count the number of documents
\* of batches 1..k, which grows strictly from call to call.  Without a
\* callback nothing is reported.
C7_ProgressAfterEachBatch ==
    \A s \in Sessions :
        ing[s].op = "batched" =>
            /\ ~ing[s].cb => ing[s].calls = <<>>
            /\ ing[s].cb =>
                   /\ Len(ing[s].calls) =
                          Len(ing[s].batches)
                              - (IF ing[s].pc = "progress" THEN 1 ELSE 0)
                   /\ \A k \in 1..Len(ing[s].calls) :
                          LET done == Flatten(SubSeq(ing[s].batches, 1, k)) IN
                          /\ ing[s].calls[k].total = Len(ing[s].docs)
                          /\ ing[s].calls[k].processed = Len(done)
                          /\ ing[s].calls[k].stored = Len(SplitDocuments(done))
                          /\ k > 1 => ing[s].calls[k].processed >
                                          ing[s].calls[k - 1].processed

\* a second batch, shorter than the batch size, has been appended and
\* reported
C7_Witness ==
    \E s \in Sessions :
        /\ BatchedIn(s, {"batch", "done"})
        /\ ing[s].cb
        /\ Len(ing[s].calls) = 2
        /\ ing[s].calls[2].processed = 3
        /\ ing[s].bsize = 2

\* C8: a call of ingest_documents_batched with an empty list ends at once
\* with the error "No documents to ingest": in that step and until the
\* error has reached the caller the persist directory and the collection
\* stay as they were, no embedding provider exists and no callback runs.
C8_EmptyInputRejectedFirst ==
    [][\A s \in Sessions :
         /\ (ing[s].pc = "idle" /\ ing'[s].op = "batched"
                 /\ ing'[s].docs = <<>>) =>
                /\ ing'[s].pc = "failed"
                /\ ing'[s].err = "NoDocuments"
                /\ ~ing'[s].emb
                /\ ing'[s].calls = <<>>
                /\ ing'[s].batches = <<>>
                /\ UNCHANGED storeVars
         /\ (ing[s].op = "batched" /\ ing[s].docs = <<>>) =>
                /\ UNCHANGED storeVars
                /\ ing'[s] \in {ing[s], IdleCall}]_vars

\* an empty list was rejected while the collection held chunks
C8_Witness ==
    \E s \in Sessions :
        /\ BatchedIn(s, {"failed"})
        /\ ing[s].docs = <<>>
        /\ ing[s].err = "NoDocuments"
        /\ collExists
        /\ coll # <<>>

----------------------------------------------------------------------------
(* Isolation of contact-scoped answers, checked under SpecRetrieval *)

\* record d belongs to contact b alone: it is b's contact record, or a deal
\* whose associated contacts are b and nobody else
ExclusivelyOf(d, b) ==
    LET r == Catalog[d] IN
    \/ r.otype = "contact" /\ r.id = b
    \/ r.otype = "deal" /\ r.contacts # <<>>
           /\ \A x \in DOMAIN r.contacts : r.contacts[x] = b

\* the contact record of contact c is in the index
Indexed(c) ==
    \E i \in DOMAIN coll :
        Catalog[coll[i].doc].otype = "contact" /\ Catalog[coll[i].doc].id = c

\* C1: for two distinct contacts A and B in the index, the chunks retrieved
\* for an answer to A never include a chunk of a record that belongs to B
\* alone, whatever ids the records of the different object types carry.
C1_Isolation ==
    \A b \in ContactIds \ {evidence.contact} :
        (Indexed(evidence.contact) /\ Indexed(b)) =>
            \A i \in DOMAIN evidence.chunks :
                ~ExclusivelyOf(evidence.chunks[i].doc, b)

\* the positions of the collection the filter permits for contact cid
Permitted(cid) ==
    {i \in DOMAIN coll : MatchesFilter(Metadata(coll[i].doc), cid)}

Range(seq) == {seq[i] : i \in DOMAIN seq}

\* C14: what a contact-scoped retrieval with limit k returns are permitted
\* chunks only, min(k, number of permitted chunks) of them, no chunk twice,
\* nearest first, and no permitted chunk left out is nearer than one
\* returned: the limit counts permitted chunks, however many others are
\* nearer to the question.
C14_FilterInsideQuery ==
    (evidence.via # "none" /\ evidence.err = "none") =>
        LET got == evidence.chunks
            cid == evidence.contact
            q == evidence.query
        IN  /\ \A i \in DOMAIN got :
                   /\ MatchesFilter(Metadata(got[i].doc), cid)
                   /\ got[i] \in {coll[j] : j \in Permitted(cid)}
            /\ Len(got) = Min(evidence.k, Cardinality(Permitted(cid)))
            /\ Cardinality(Range(got)) = Len(got)
            /\ \A i, j \in DOMAIN got :
                   i < j => Distance(q, got[i]) <= Distance(q, got[j])
            /\ \A i \in DOMAIN got, j \in Permitted(cid) :
                   coll[j] \notin Range(got) =>
                       Distance(q, got[i]) <= Distance(q, coll[j])

\* a retrieval with k = 1 returned a permitted chunk although more than k
\* chunks the filter rejects are nearer to the question
C14_Witness ==
    /\ evidence.via = "retriever"
    /\ evidence.k = 1
    /\ Len(evidence.chunks) = 1
    /\ Cardinality({j \in DOMAIN coll \ Permitted(evidence.contact) :
                        Distance(evidence.query, coll[j]) <
                            Distance(evidence.query, evidence.chunks[1])})
           > evidence.k

\* C15: answer_for_contact does not raise for want of evidence, and when
\* the scoped retrieval found no chunk its answer is the fixed fallback
\* text, not the text of the language model.
C15_FallbackOnNoEvidence ==
    (evidence.via = "webhook" /\ evidence.err = "none"
         /\ evidence.chunks = <<>>) =>
        evidence.answer = Fallback

----------------------------------------------------------------------------
(* Properties of the cache and of load_vectorstore, checked under SpecCache *)

\* the loads that returned, made by calls that began before any load was
\* invoked
FirstTimeLoads ==
    {k \in DOMAIN loads : loads[k].epoch = 0 /\ loads[k].result # "raise"}

C10_LoadNeverRaises ==
    \A t \in Threads : thr[t].own.result # "raise"

\* C10 as amended: load_vectorstore returns None without a persist
\* directory and on every failure of the open or the probe, a handle when
\* both succeed, and raises in one case only: the directory exists and no
\* API key is set.
C10_RaisesOnlyWithoutKey ==
    \A t \in Threads :
        LET o == thr[t].own IN
        o.outcome # "none" =>
            /\ o.result = "raise" <=> (o.dir /\ ~o.key)
            /\ o.result = "handle" <=> (o.dir /\ o.key /\ o.outcome = "ok")
            /\ (~o.dir \/ (o.key /\ o.outcome # "ok")) => o.result = "none"

\* a probe failed with an error other than InternalError and the load
\* returned None
C10_Witness ==
    \E t \in Threads :
        /\ thr[t].own.outcome = "probe_other"
        /\ thr[t].own.dir /\ thr[t].own.key
        /\ thr[t].own.result = "none"
        /\ thr[t].pc = "returned"

C13_Lifecycle ==
    \A t \in Threads :
        LET o == thr[t].own IN
        /\ o.outcome # "none" =>
               /\ ~o.dir => o.result = "none"
               /\ o.result = "handle" => (o.dir /\ o.outcome = "ok")
               /\ o.outcome # "ok" => o.result # "handle"
               /\ (o.result = "handle" /\ thr[t].pc = "release") => collExists
        /\ (thr[t].pc = "returned" /\ thr[t].res # 0) =>
               /\ thr[t].res \in DOMAIN loads
               /\ loads[thr[t].res].result = "handle"

\* a load made without a persist directory and without an API key has
\* returned None
C13_Witness ==
    \E t \in Threads :
        /\ thr[t].pc = "returned"
        /\ thr[t].res = 0
        /\ thr[t].own.outcome # "none"
        /\ ~thr[t].own.dir /\ ~thr[t].own.key
        /\ thr[t].own.result = "none"

----------------------------------------------------------------------------
(* Properties of the webhook's message processing, under SpecWebhook *)

\* C16: a thread is inside load_vectorstore only while it holds the lock
\* and the cache is empty, so at most one load is in progress; and a
\* thread that finds the cache filled at its check under the lock goes on
\* to release the lock without loading.
C16_LoadUnderLockAfterRecheck ==
    /\ [](/\ \A t \in Threads :
                thr[t].pc = "load" => (lock = t /\ cache = 0)
          /\ Cardinality({t \in Threads : thr[t].pc = "load"}) <= 1)
    /\ [][\A t \in Threads :
             /\ (thr[t].pc # "load" /\ thr'[t].pc = "load") =>
                    (thr[t].pc = "check2" /\ lock = t /\ cache = 0)
             /\ (thr[t].pc = "check2" /\ cache # 0 /\ thr'[t] # thr[t]) =>
                    (thr'[t].pc = "release" /\ loads' = loads)]_vars

\* a thread that waited for the lock holds it, finds the cache filled by
\* another thread's load and has not loaded
C16_Witness ==
    \E t \in Threads :
        /\ thr[t].pc = "release"
        /\ thr[t].own = NoLoad
        /\ thr[t].epoch = 0
        /\ lock = t
        /\ cache # 0
        /\ Len(loads) = 1

\* the error texts of ErrorTexts that hold "hnsw" or "compactor" when
\* letter case is ignored
CorruptionTexts ==
    { <<"n", "o", " ", "H", "n", "s", "w">>,
      <<"c", "o", "m", "p", "a", "c", "t", "o", "r">> }

\* C17: a message task resets the cache exactly when its answer attempt
\* raised an error whose text holds a corruption marker; the cache goes
\* from a handle to empty in such a reset only, and is empty right after
\* it; with the cache empty a call of _get_vectorstore takes the lock and,
\* the cache still empty, loads, and what is cached next is the handle of
\* that new load.
C17_InvalidateOnCorruptionOnly ==
    /\ [](\A t \in Threads :
             /\ thr[t].pc \in {"invalidate", "reset"} =>
                    thr[t].err \in CorruptionTexts
             /\ thr[t].pc = "reply" =>
                    (thr[t].inv <=> thr[t].err \in CorruptionTexts))
    /\ [][/\ (cache # 0 /\ cache' = 0) =>
                \E t \in Threads :
                    /\ thr[t].pc = "reset" /\ thr'[t].pc = "reply"
                    /\ thr[t].err \in CorruptionTexts
          /\ \A t \in Threads :
                /\ (thr[t].pc = "reset" /\ thr'[t].pc = "reply") =>
                       cache' = 0
                /\ (thr[t].pc = "answer" /\ thr'[t].pc = "reply") =>
                       cache' = cache
                /\ (thr[t].pc = "idle" /\ cache = 0
                        /\ thr'[t].pc \notin {"idle", "reply"}) =>
                       thr'[t].pc = "acquire"
                /\ (thr[t].pc = "check2" /\ cache = 0 /\ thr'[t] # thr[t]) =>
                       thr'[t].pc = "load"
          /\ (cache' # cache /\ cache' # 0) =>
                (loads' # loads /\ cache' = Len(loads'))]_vars

\* after a reset by a task whose answer failed with a marker, a second
\* load has filled the cache again
C17_Witness ==
    /\ Len(loads) = 2
    /\ loads[1].result = "handle"
    /\ loads[2].result = "handle"
    /\ cache = 2
    /\ \E t \in Threads :
           thr[t].pc = "reply" /\ thr[t].inv /\ thr[t].err \in CorruptionTexts

\* C18: the cache is empty or holds a handle that a load_vectorstore call
\* of the log returned, and a handle enters the cache only in the step in
\* which the thread inside load_vectorstore receives it.
C18_CacheHoldsLoadedHandleOnly ==
    /\ [](cache # 0 =>
             (cache \in DOMAIN loads /\ loads[cache].result = "handle"))
    /\ [][(cache' # cache /\ cache' # 0) =>
             \E t \in Threads :
                 /\ thr[t].pc = "load"
                 /\ thr'[t].own.result = "handle"
                 /\ thr'[t].own.outcome = "ok"]_vars

\* a task answers with the handle that the cache holds
C18_Witness ==
    \E t \in Threads :
        /\ thr[t].pc = "answer"
        /\ cache # 0
        /\ thr[t].res = cache

\* C19: the lock is held only by a thread between its check under the
\* lock and the end of the with block, or by one resetting the cache;
\* never by a thread that answers, replies or is idle; and with the cache
\* filled a call of _get_vectorstore returns the handle in one step
\* without touching the lock.
C19_LockOnlyAroundLoadAndReset ==
    /\ [](/\ lock # 0 => thr[lock].pc \in {"check2", "load", "release",
                                            "reset"}
          /\ \A t \in Threads :
                thr[t].pc \in {"idle", "acquire", "ret", "returned", "raised",
                               "answer", "invalidate", "reply"} => lock # t)
    /\ [][\A t \in Threads :
             (thr[t].pc = "idle" /\ cache # 0
                  /\ thr'[t].pc \notin {"idle", "reply"}) =>
                 /\ thr'[t].pc = "returned"
                 /\ thr'[t].res = cache
                 /\ lock' = lock]_vars

\* two tasks are inside answer_for_contact at the same time
C19_Witness ==
    \E t, u \in Threads :
        /\ t # u
        /\ thr[t].pc = "answer"
        /\ thr[u].pc = "answer"
        /\ lock = 0

----------------------------------------------------------------------------
(* Recovery after a load, under SpecRecover; overlapping runs, under
   SpecConcurrent *)

C20_LastWriterWins ==
    \A s, o \in Sessions :
        (s # o /\ BatchedIn(s, {"done"}) /\ BatchedIn(o, {"done"})) =>
            \/ coll = SplitDocuments(ing[s].docs)
            \/ coll = SplitDocuments(ing[o].docs)

----------------------------------------------------------------------------
(* Properties of the webhook handler, checked under SpecHandler *)

\* the text of an event holds a character that is not a blank
C21_HasText(e) == e.hasText /\ \E i \in DOMAIN e.text : e.text[i] # " "

\* one task for each event with a sender id and a text, in order
C21_TasksFor(entries) ==
    LET wanted == SelectSeq(Flatten(entries),
                            LAMBDA e : e.psid # "" /\ C21_HasText(e))
    IN  [i \in DOMAIN wanted |->
            [psid |-> wanted[i].psid, text |-> Strip(wanted[i].text)]]

\* C21: handle_webhook answers without running a task: every step of it
\* leaves the running tasks, the message log and the sent replies alone and
\* only adds to the queue; what it adds is exactly one task for each
\* messaging event with a sender id and a non-blank text, in order, when the
\* request is answered with 200 "OK" and its object is "page", and nothing
\* when the object is not "page" or the request is answered with 400 or 401.
C21_OneTaskPerDeliverableEvent ==
    [][LET r == http' IN
       /\ tasks' = tasks /\ log' = log /\ sent' = sent
       /\ r.status \in {200, 400, 401}
       /\ (r.status = 200) = (r.text = "OK")
       /\ r.req.body.form # "json" => r.status # 200
       /\ queue' = queue \o (IF r.status = 200 /\ r.req.body.object = "page"
                             THEN C21_TasksFor(r.req.body.entry)
                             ELSE <<>>)]_vars

\* a payload with two events, one with a sender id and a blank text, was
\* answered with "OK" and one task was added for the other event
C21_Witness ==
    /\ http.status = 200
    /\ Len(Flatten(http.req.body.entry)) = 2
    /\ \E i \in 1..2 : LET e == Flatten(http.req.body.entry)[i] IN
                          e.psid # "" /\ e.hasText /\ ~C21_HasText(e)
    /\ Len(queue) = 1
    /\ queue = http.added

\* C28: a request gets past verify_signature only if no app secret is
\* configured or its signature is the HMAC-SHA256 of the body under the app
\* secret; with a secret configured, tasks are added for validly signed
\* requests only.
C28_SignatureRequired ==
    (http # NoRequest /\ http.req.body.form # "unreadable"
         /\ http.status # 401)
        => \/ appSecret = 0
           \/ /\ http.req.signature.kind = "sha256"
              /\ http.req.signature.digest = Hmac(appSecret, http.req.body)

----------------------------------------------------------------------------
(* Properties of the link table, checked under SpecLinks *)

LinkRowsOf(rows, psid) == {r \in rows : r.psid = psid}

\* C22: after every link_psid_to_contact call each psid has at most one row
\* in the link table, get_contact_for_psid gives for every psid the contact
\* of the latest link call made for it (None when there was none), and the
\* call has left the rows of all other psids as they were.
C22_OneContactLastWriteWins ==
    [][/\ \A p \in Psids :
            /\ Cardinality(LinkRowsOf(links', p)) <= 1
            /\ GetContactForPsid(links', p) =
                   (IF linkCalls'[p] = <<>> THEN 0 ELSE Last(linkCalls'[p]))
       /\ \E p \in Psids :
            \A q \in Psids \ {p} : LinkRowsOf(links', q) = LinkRowsOf(links, q)
      ]_vars

\* a psid was linked to one contact and then to the other, next to a link
\* of the other psid
C22_Witness ==
    /\ linkCalls["p1"] = <<1, 2>>
    /\ GetContactForPsid(links, "p1") = 2
    /\ GetContactForPsid(links, "p2") # 0

----------------------------------------------------------------------------
(* Properties of message processing, checked under SpecMessaging *)

\* C23: a step of handle_webhook or of _process_message (one that changes
\* the last request, the queue or a task) leaves the link table as it is,
\* and the link table changes only in a step in which link_psid_to_contact
\* was called.
C23_LinksOnlyByOperator ==
    [][/\ (http' # http \/ queue' # queue \/ tasks' # tasks)
              => links' = links
       /\ links' # links => linkCalls' # linkCalls]_vars

\* the operator has linked one sender, and a message of the other sender
\* was processed to its end with that sender still without a link
C23_Witness ==
    \E k \in TaskSlots :
        /\ tasks[k].pc = "done"
        /\ tasks[k].fails = {}
        /\ GetContactForPsid(links, tasks[k].psid) = 0
        /\ \E p \in Psids : GetContactForPsid(links, p) # 0

\* C24: every step leaves each record of the message log where it was, with
\* its id, psid, direction, text and timestamp; records are only added at
\* the end, each with an id no earlier record has.
C24_LogAppendOnly ==
    [][/\ Len(log') >= Len(log)
       /\ SubSeq(log', 1, Len(log)) = log
       /\ \A i, j \in DOMAIN log' : log'[i].id = log'[j].id => i = j]_vars

\* two inbound messages of one sender and the replies to them are stored
C24_Witness ==
    /\ Len(log) = 4
    /\ \E i, j \in DOMAIN log :
           /\ i < j
           /\ log[i].psid = log[j].psid
           /\ log[i].direction = "in" /\ log[j].direction = "in"
    /\ \E i \in DOMAIN log : log[i].direction = "out"

----------------------------------------------------------------------------
(* Properties of the conversation context, checked under SpecChat *)

\* the n newest stored messages of a psid, oldest first, as prompt lines
C25_Recent(rows, psid, n) ==
    LET mine == SelectSeq(rows, LAMBDA r : r.psid = psid)
        skip == IF Len(mine) > n THEN Len(mine) - n ELSE 0
    IN  [i \in 1..(Len(mine) - skip) |->
            [role |-> IF mine[skip + i].direction = "in" THEN "User"
                      ELSE "Assistant",
             message |-> mine[skip + i].message]]

\* the chat tab, answering as the contact of a psid, puts the stored
\* messages of the psid before the question
C25_ChatTabHasContext ==
    [][evidence' # evidence =>
          \E p \in Psids :
              /\ GetContactForPsid(links, p) = evidence'.contact
              /\ evidence'.context = C25_Recent(log, p, MESSAGE_LIMIT)]_vars

\* C25: whenever an answer is asked for a linked psid, by the chat tab or by
\* _process_message, the context that goes with the question holds the
\* newest MESSAGE_LIMIT stored messages of the psid, oldest first.
C25_ContextBeforeQuestion ==
    [][/\ evidence' # evidence =>
              \E p \in Psids :
                  /\ GetContactForPsid(links, p) = evidence'.contact
                  /\ evidence'.context = C25_Recent(log, p, MESSAGE_LIMIT)
       /\ \A k \in TaskSlots :
              (tasks'[k].asked /\ ~tasks[k].asked) =>
                  tasks'[k].context =
                      C25_Recent(log, tasks'[k].psid, MESSAGE_LIMIT)]_vars

----------------------------------------------------------------------------
(* Properties of ingestion over an existing index, checked under
   SpecReingest *)

\* the index as it was before the call
C26_Untouched ==
    dirExists /\ collExists /\ coll = SplitDocuments(<<1, 2, 3>>)

\* C26: without OPENAI_API_KEY a call of ingest_documents_batched with a
\* non-empty list, of index_documents or of ingest_documents fails at once
\* with the error of get_embeddings, and a call of ingest_documents_batched
\* with the empty list fails at once with "No documents to ingest"; no
\* embeddings are made, nothing is retried, and the collection that was
\* there is still there with the chunks it held.
C26_NoKeyFailsBeforeAnyChange ==
    ~apiKey =>
        /\ C26_Untouched
        /\ \A s \in Sessions :
               ing[s].op # "none" =>
                   /\ ing[s].pc = "failed"
                   /\ ~ing[s].emb
                   /\ ing[s].batches = <<>>
                   /\ ing[s].err = IF ing[s].op = "batched"
                                      /\ ing[s].docs = <<>>
                                   THEN "NoDocuments" ELSE "NoApiKey"

\* a batched ingestion of a non-empty list has failed for the missing key
\* over the collection that is still filled
C26_Witness ==
    /\ ~apiKey
    /\ \E s \in Sessions :
           /\ ing[s].op = "batched"
           /\ ing[s].docs # <<>>
           /\ ing[s].pc = "failed"
           /\ ing[s].err = "NoApiKey"
    /\ coll # <<>>

\* C26 as stated: without OPENAI_API_KEY every call of
\* ingest_documents_batched and index_documents fails with the
\* configuration error, before any change to the index.
C26_NoKeyIsAlwaysConfigError ==
    ~apiKey =>
        /\ C26_Untouched
        /\ \A s \in Sessions :
               ing[s].op # "none" =>
                   ing[s].pc = "failed" /\ ing[s].err = "NoApiKey"

----------------------------------------------------------------------------
(* Properties of the replies of _process_message, checked under
   SpecMessaging *)

FixedReplies == {AgentReply, NotReadyReply, ErrorReply, WrongReply}

\* the texts answer_for_contact can return
AnswerTexts == {r.text : r \in {x \in AnswerResults : x.ok}}

\* the steps of a task whose failure comes before a reply is sent
EarlySteps == {"store_in", "lookup", "load", "answer"}

\* C27: no failure of a step ends a task with an error: a task that has
\* failed goes on to send a reply.  Every text a task sends is a fixed
\* reply or the text answer_for_contact returned, never one made of an
\* error.  When the inbound store, the link lookup, the index load or the
\* answer generation has failed, every text sent is a fixed reply: the
\* error reply after a failed answer, the not-ready reply after a load that
\* gave no handle, the apology after an error that reached the outer
\* handler.  A reply sent before the outbound store fails may be the
\* generated answer; a text sent after a failure is a fixed reply.
C27_FailuresGiveFixedReplies ==
    \A k \in TaskSlots :
        LET t == tasks[k] IN
        /\ t.pc \in {"idle", "save_in", "lookup", "getvs", "answer", "send",
                     "save_out", "except", "done"}
        /\ t.pc = "done" => t.sends # <<>>
        /\ \A i \in DOMAIN t.sends : t.sends[i] \in FixedReplies \cup AnswerTexts
        /\ t.fails \cap EarlySteps # {} =>
               \A i \in DOMAIN t.sends : t.sends[i] \in FixedReplies
        /\ ("answer" \in t.fails /\ t.sends # <<>>) => t.sends[1] = ErrorReply
        /\ t.reply \in {<<>>} \cup FixedReplies \cup AnswerTexts
        /\ \A i \in DOMAIN t.sends : i > 1 => t.sends[i] \in FixedReplies

\* answer_for_contact has raised, the error reply was sent, the outbound
\* store has failed too and the task has ended with the apology
C27_Witness ==
    \E k \in TaskSlots :
        /\ tasks[k].pc = "done"
        /\ tasks[k].fails = {"answer", "store_out"}
        /\ tasks[k].sends = <<ErrorReply, WrongReply>>

\* C27 as stated: whenever a step of a task has failed, every text the
\* task has sent is a fixed reply.
C27_OnlyFixedRepliesOnFailure ==
    \A k \in TaskSlots :
        tasks[k].fails # {} =>
            \A i \in DOMAIN tasks[k].sends : tasks[k].sends[i] \in FixedReplies

\* C29: for a dispatched message _process_message sends at most one reply,
\* whichever of its steps fail.
C29_AtMostOneReply ==
    \A k \in TaskSlots : Len(tasks[k].sends) <= 1

\* C30: a task whose sender has no link never calls _get_vectorstore or
\* answer_for_contact and holds no handle; its steps leave the cache, the
\* loads made and the collection as they are; what it sends is the fixed
\* 'agent will connect' reply, or the apology when a store has failed, and
\* the 'agent will connect' reply comes first whenever no step has failed.
C30_UnlinkedNeverTouchesIndex ==
    [][\A k \in TaskSlots :
          LET t == tasks'[k] IN
          (t.pc # "idle" /\ t.cid = 0) =>
              /\ ~t.index /\ ~t.asked /\ t.vs = 0
              /\ \A i \in DOMAIN t.sends : t.sends[i] \in {AgentReply, WrongReply}
              /\ (t.fails = {} /\ t.sends # <<>>) => t.sends[1] = AgentReply
              /\ t # tasks[k] =>
                     /\ cache' = cache /\ loads' = loads
                     /\ collExists' = collExists /\ coll' = coll]_vars

\* a message of a sender without a link was answered with the 'agent will
\* connect' reply and stored, with the index on disk and never loaded
C30_Witness ==
    \E k \in TaskSlots :
        /\ tasks[k].pc = "done"
        /\ tasks[k].fails = {}
        /\ GetContactForPsid(links, tasks[k].psid) = 0
        /\ tasks[k].sends = <<AgentReply>>
        /\ collExists /\ coll # <<>>
        /\ cache = 0 /\ loads = <<>>

====
